---- MODULE Spec2Model ----
(***************************************************************************)
(* Job lifecycle and ledger of the jobpop backend: the Job, User and       *)
(* Transaction models and the applications, payments and jobs routes.      *)
(* Every request handler is one action; the withdrawal settlement timer    *)
(* is an action of its own.  The response of the last handled request is   *)
(* kept in `last`.  The database holds what the mongoose documents hold;   *)
(* a save writes the paths the handler modified.                           *)
(***************************************************************************)
EXTENDS Integers, Sequences, FiniteSets, TLC

\* ---- bounds ----
MaxApps == 2          \* applications ever pushed onto one job
MaxTxns == 4          \* ledger length up to which withdrawals are requested
MaxLiveJobs == 1      \* job documents in the store at one time
MaxInFlight == 2      \* requests that are between their load and their save

Users == {"e1", "w1", "w2"}
JobIds == 1..7
LedgerJobIds == {1, 2}       \* the jobs of the ledger specification
PayAmounts == {2}            \* body pay.amount of a created job
Ratings == {1, 2}            \* body rating of the ratings routes
ProposedPays == {3}          \* body proposedPay of an application
WithdrawAmounts == {2}       \* body amount of a withdrawal
PMIds == {"pm1", "pm9"}      \* body paymentMethodId of a withdrawal
NewPMIds == {"pm2", "pm3"}   \* _ids given to the payment methods added
SocketIds == {"s1", "s2", "s3"}   \* socket.id of the connections

Null == "null"
Absent == "absent"

JobStatuses == {"active", "in_progress", "completed", "cancelled", "expired"}
AppStatuses == {"pending", "accepted", "rejected", "withdrawn"}
TxnStatuses == {"pending", "completed", "failed", "cancelled"}

\* isVerified of the accounts (set outside the modelled routes)
isVerified == [u \in Users |-> u = "e1"]
\* paymentMethods sub-documents the accounts hold when the server starts
paymentMethodsAtStart == [u \in Users |-> IF u = "w1" THEN {"pm1"} ELSE {}]

\* the fields of req.body that POST /api/jobs and PUT /api/jobs/:id are
\* modelled with: status and selectedWorker, each present or absent
Bodies ==
  { [status |-> Absent, selectedWorker |-> Absent],
    [status |-> "in_progress", selectedWorker |-> Absent],
    [status |-> "cancelled", selectedWorker |-> Absent],
    [status |-> Absent, selectedWorker |-> "w1"] }

VARIABLES users, jobs, ledger, timers, inflight, last, connectedUsers, sockets

vars == <<users, jobs, ledger, timers, inflight, last, connectedUsers, sockets>>

Reqs == 1..MaxInFlight
Idle == [op |-> "idle"]

\* a job document with the schema defaults.  employerRating and workerRating
\* are completion.*.rating (0: none), version is the document's __v, appSeq
\* counts the application _ids given out
NoJob ==
  [exists |-> "none", employer |-> Null, status |-> "active", payAmount |-> 0,
   applications |-> <<>>, applicationsCount |-> 0, selectedWorker |-> Null,
   startedAt |-> FALSE, completedAt |-> FALSE, expired |-> FALSE,
   payment |-> [status |-> "pending", amount |-> 0, transactionId |-> 0],
   employerRating |-> 0, workerRating |-> 0, version |-> 0,
   appSeq |-> 0]

\* the request handled last and its answer: op and arg name the route (arg: the
\* body's action or paymentMethodId), bal is the caller's wallet.balance when
\* the request arrived, code the HTTP status (0: not a request)
Response(op, arg, u, j, a, t, amt, bal, code) ==
  [op |-> op, arg |-> arg, user |-> u, job |-> j, app |-> a, txn |-> t,
   amt |-> amt, bal |-> bal, code |-> code]

Init ==
  /\ connectedUsers = [u \in Users |-> Null]
  /\ sockets = [s \in SocketIds |-> Null]
  /\ users = [u \in Users |->
       [balance |-> 0, paymentMethods |-> paymentMethodsAtStart[u],
        defaultMethods |-> paymentMethodsAtStart[u],
        completedJobs |-> 0, totalEarnings |-> 0,
        averageRating |-> 0, totalReviews |-> 0,
        isActive |-> TRUE, email |-> <<u>>]]
  /\ jobs = [j \in JobIds |-> NoJob]
  /\ ledger = <<>>
  /\ timers = {}
  /\ inflight = [r \in Reqs |-> Idle]
  /\ last = Response("none", Null, Null, 0, 0, 0, 0, 0, 0)

Live(j) == jobs[j].exists = "live"

\* position of the application with _id a in a job document, 0 when there is none
\* (job.applications.id(applicationId))
AppIndex(job, a) ==
  IF \E i \in 1..Len(job.applications) : job.applications[i].id = a
  THEN CHOOSE i \in 1..Len(job.applications) : job.applications[i].id = a
  ELSE 0

\* position of the first application of worker u, 0 when there is none
\* (job.applications.find(app => app.worker === userId))
FirstAppOf(job, u) ==
  IF \E i \in 1..Len(job.applications) : job.applications[i].worker = u
  THEN CHOOSE i \in 1..Len(job.applications) :
         /\ job.applications[i].worker = u
         /\ \A k \in 1..(i - 1) : job.applications[k].worker # u
  ELSE 0

\* ---------------------------------------------------------------- Job model

\* canApply without the check of the job's status
canApply_statusUnchecked(job, userId) ==
  /\ ~job.expired
  /\ job.employer # userId
  /\ FirstAppOf(job, userId) = 0

\* canApply without the look-up of an existing application
canApply_noExistingCheck(job, userId) ==
  /\ job.status = "active"
  /\ ~job.expired
  /\ job.employer # userId

canApply(job, userId) ==
  /\ job.status = "active"
  /\ ~job.expired
  /\ job.employer # userId
  /\ FirstAppOf(job, userId) = 0

\* apply that takes the count before the push
apply_countBeforePush(job, userId, proposedPay, id) ==
  [job EXCEPT !.applications = Append(@,
                  [id |-> id, worker |-> userId, status |-> "pending",
                   proposedPay |-> proposedPay]),
              !.applicationsCount = Len(job.applications)]

\* the document after job.apply pushed the application and set the count
apply(job, userId, proposedPay, id) ==
  LET pushed == Append(job.applications,
                  [id |-> id, worker |-> userId, status |-> "pending",
                   proposedPay |-> proposedPay])
  IN [job EXCEPT !.applications = pushed, !.applicationsCount = Len(pushed)]

\* what job.save() writes after apply: the pushed element is appended to the
\* stored array ($push, which increments __v), applicationsCount is set to the
\* document's value
saveApplied(stored, doc) ==
  [stored EXCEPT !.applications = Append(@, doc.applications[Len(doc.applications)]),
                 !.applicationsCount = doc.applicationsCount,
                 !.version = @ + 1,
                 !.appSeq = @ + 1]

\* acceptApplication that rejects the other pending applications
acceptApplication_rejectOthers(job, i) ==
  [job EXCEPT !.applications =
                 [k \in 1..Len(job.applications) |->
                    IF k = i THEN [job.applications[k] EXCEPT !.status = "accepted"]
                    ELSE IF job.applications[k].status = "pending"
                    THEN [job.applications[k] EXCEPT !.status = "rejected"]
                    ELSE job.applications[k]],
              !.selectedWorker = job.applications[i].worker,
              !.status = "in_progress"]

acceptApplication(job, i) ==
  [job EXCEPT !.applications[i].status = "accepted",
              !.selectedWorker = job.applications[i].worker,
              !.status = "in_progress"]

\* the accept branch without its own writes after acceptApplication
acceptRoute_noStartedAt(job, i) == acceptApplication(job, i)

\* the accept branch of the route: acceptApplication, then status and
\* completion.startedAt are set and the document is saved again
acceptRoute(job, i) ==
  [acceptApplication(job, i) EXCEPT !.status = "in_progress", !.startedAt = TRUE]

RemoveAppsOf(apps, u) == SelectSeq(apps, LAMBDA app : app.worker # u)

\* ------------------------------------------------------ applications routes

\* POST /api/applications/:jobId, handled without interruption
PostApplication(u, j, pp) ==
  /\ UNCHANGED <<connectedUsers, sockets>>
  /\ UNCHANGED <<users, ledger, timers, inflight>>
  /\ IF ~Live(j)
     THEN /\ last' = Response("apply", Null, u, j, 0, 0, 0, 0, 404)
          /\ UNCHANGED jobs
     ELSE IF ~canApply(jobs[j], u)
     THEN /\ last' = Response("apply", Null, u, j, 0, 0, 0, 0, 400)
          /\ UNCHANGED jobs
     ELSE /\ jobs[j].appSeq < MaxApps
          /\ jobs' = [jobs EXCEPT ![j] =
                saveApplied(jobs[j], apply(jobs[j], u, pp, jobs[j].appSeq + 1))]
          /\ last' = Response("apply", Null, u, j, jobs[j].appSeq + 1, 0, pp, 0, 201)

\* the caller checks with the one of the reject branch left out
NotAuthorized_rejectUnchecked(job, i, u, action) ==
  CASE action = "withdraw" -> job.applications[i].worker # u
    [] action = "accept" -> job.employer # u
    [] action = "reject" -> FALSE

\* the caller checks of the three branches: the job owner accepts and
\* rejects, the applicant withdraws
NotAuthorized(job, i, u, action) ==
  IF action = "withdraw" THEN job.applications[i].worker # u ELSE job.employer # u

\* POST /api/applications/:jobId up to the await of job.apply's save: the
\* job is loaded and checked, and request r holds the loaded document
ApplyLoad(r, u, j, pp) ==
  /\ UNCHANGED <<connectedUsers, sockets>>
  /\ inflight[r] = Idle
  /\ \A q \in Reqs : q < r => inflight[q] # Idle
  /\ UNCHANGED <<users, jobs, ledger, timers>>
  /\ IF ~Live(j)
     THEN /\ last' = Response("apply", Null, u, j, 0, 0, 0, 0, 404)
          /\ UNCHANGED inflight
     ELSE IF ~canApply(jobs[j], u)
     THEN /\ last' = Response("apply", Null, u, j, 0, 0, 0, 0, 400)
          /\ UNCHANGED inflight
     ELSE /\ inflight' = [inflight EXCEPT ![r] =
                [op |-> "apply", user |-> u, job |-> j, doc |-> jobs[j],
                 proposedPay |-> pp]]
          /\ last' = Response("applyLoad", Null, u, j, 0, 0, pp, 0, 0)

\* the rest of that request: job.apply on the loaded document and its save;
\* the save of a document the store no longer holds throws (500)
ApplySave(r) ==
  /\ UNCHANGED <<connectedUsers, sockets>>
  /\ inflight[r] # Idle
  /\ inflight' = [inflight EXCEPT ![r] = Idle]
  /\ UNCHANGED <<users, ledger, timers>>
  /\ LET q == inflight[r]
         j == q.job
     IN IF ~Live(j)
        THEN /\ last' = Response("apply", Null, q.user, j, 0, 0, 0, 0, 500)
             /\ UNCHANGED jobs
        ELSE /\ jobs[j].appSeq < MaxApps
             /\ jobs' = [jobs EXCEPT ![j] =
                   saveApplied(jobs[j],
                     apply(q.doc, q.user, q.proposedPay, jobs[j].appSeq + 1))]
             /\ last' = Response("apply", Null, q.user, j, jobs[j].appSeq + 1, 0,
                                 q.proposedPay, 0, 201)

\* PUT /api/applications/:jobId/:applicationId
PutApplication(u, j, a, action) ==
  /\ UNCHANGED <<connectedUsers, sockets>>
  /\ UNCHANGED <<users, ledger, timers, inflight>>
  /\ LET job == jobs[j]
         i == AppIndex(job, a)
         Deny(code) == /\ last' = Response("putApplication", action, u, j, a, 0, 0, 0, code)
                       /\ UNCHANGED jobs
         Done(doc) == /\ last' = Response("putApplication", action, u, j, a, 0, 0, 0, 200)
                      /\ jobs' = [jobs EXCEPT ![j] = doc]
     IN IF ~Live(j) \/ i = 0 THEN Deny(404)
        ELSE IF NotAuthorized(job, i, u, action) THEN Deny(403)
        ELSE CASE action = "accept" ->
                    IF job.status # "active" THEN Deny(400)
                    ELSE Done(acceptRoute(job, i))
               [] action = "reject" ->
                    Done([job EXCEPT !.applications[i].status = "rejected"])
               [] action = "withdraw" ->
                    Done([job EXCEPT !.applications[i].status = "withdrawn"])

\* DELETE /api/applications/:jobId
DeleteApplication(u, j) ==
  /\ UNCHANGED <<connectedUsers, sockets>>
  /\ UNCHANGED <<users, ledger, timers, inflight>>
  /\ LET job == jobs[j]
         i == FirstAppOf(job, u)
         Deny(code) == /\ last' = Response("deleteApplication", Null, u, j, 0, 0, 0, 0, code)
                       /\ UNCHANGED jobs
     IN IF ~Live(j) \/ i = 0 THEN Deny(404)
        ELSE IF job.applications[i].status # "pending" THEN Deny(400)
        ELSE LET kept == RemoveAppsOf(job.applications, u)
             IN /\ jobs' = [jobs EXCEPT ![j].applications = kept,
                                        ![j].applicationsCount = Len(kept),
                                        ![j].version = @ + 1]
                /\ last' = Response("deleteApplication", Null, u, j,
                                    job.applications[i].id, 0, 0, 0, 200)

\* the answer of a listing request: a Response with the data it returns
Listing(op, arg, u, j, code, data) ==
  [op |-> op, arg |-> arg, user |-> u, job |-> j, app |-> 0, txn |-> 0,
   amt |-> 0, bal |-> 0, code |-> code, data |-> data]

\* GET /api/applications/job/:jobId without the check of the caller
JobApplications_unchecked(u, j) ==
  /\ UNCHANGED <<connectedUsers, sockets>>
  /\ UNCHANGED <<users, jobs, ledger, timers, inflight>>
  /\ IF ~Live(j) THEN last' = Listing("jobApplications", Null, u, j, 404, <<>>)
     ELSE last' = Listing("jobApplications", Null, u, j, 200, jobs[j].applications)

\* GET /api/applications/job/:jobId
JobApplications(u, j) ==
  /\ UNCHANGED <<connectedUsers, sockets>>
  /\ UNCHANGED <<users, jobs, ledger, timers, inflight>>
  /\ IF ~Live(j) THEN last' = Listing("jobApplications", Null, u, j, 404, <<>>)
     ELSE IF jobs[j].employer # u
     THEN last' = Listing("jobApplications", Null, u, j, 403, <<>>)
     ELSE last' = Listing("jobApplications", Null, u, j, 200, jobs[j].applications)

\* Job.find(filter) of GET /api/applications/my: the jobs with an application
\* of the caller and, with a status in the query, with an application of that
\* status (each condition is matched by any element of the array)
MyJobs(js, u, status) ==
  { k \in JobIds :
      /\ js[k].exists = "live"
      /\ \E i \in 1..Len(js[k].applications) : js[k].applications[i].worker = u
      /\ \/ status = Absent
         \/ \E i \in 1..Len(js[k].applications) : js[k].applications[i].status = status }

\* the element of the answer that takes the first application of the job
MyApplicationItem_firstOfJob(job, k, u) ==
  [job |-> [id |-> k, pay |-> job.payAmount, status |-> job.status,
            employer |-> job.employer],
   application |-> job.applications[1]]

\* the element of the answer built from one job: the listed fields of the job
\* and the caller's application found in its array
MyApplicationItem(job, k, u) ==
  [job |-> [id |-> k, pay |-> job.payAmount, status |-> job.status,
            employer |-> job.employer],
   application |-> job.applications[FirstAppOf(job, u)]]

\* jobs.map(...) over the jobs found, sorted by createdAt descending (job
\* ids are given out in the order of creation)
RECURSIVE MyApplicationList(_, _, _)
MyApplicationList(js, S, u) ==
  IF S = {} THEN <<>>
  ELSE LET k == CHOOSE x \in S : \A y \in S : y <= x
       IN <<MyApplicationItem(js[k], k, u)>> \o MyApplicationList(js, S \ {k}, u)

\* GET /api/applications/my, first page
MyApplications(u, status) ==
  /\ UNCHANGED <<connectedUsers, sockets>>
  /\ UNCHANGED <<users, jobs, ledger, timers, inflight>>
  /\ last' = Listing("myApplications", status, u, 0, 200,
                     MyApplicationList(jobs, MyJobs(jobs, u, status), u))

\* ------------------------------------------------------------- jobs routes

\* POST /api/jobs: the document is built from req.body, employer and
\* companyName; schema defaults fill what the body leaves out
CreateJob(u, j, body, pay) ==
  /\ UNCHANGED <<connectedUsers, sockets>>
  /\ UNCHANGED <<users, ledger, timers, inflight>>
  /\ jobs[j].exists = "none"
  /\ \A k \in JobIds : k < j => jobs[k].exists # "none"
  /\ Cardinality({k \in JobIds : Live(k)}) < MaxLiveJobs
  /\ IF ~isVerified[u]
     THEN /\ last' = Response("createJob", Null, u, j, 0, 0, 0, 0, 403)
          /\ UNCHANGED jobs
     ELSE /\ jobs' = [jobs EXCEPT ![j] =
                [NoJob EXCEPT !.exists = "live", !.employer = u, !.payAmount = pay,
                   !.status = IF body.status = Absent THEN "active" ELSE body.status,
                   !.selectedWorker = IF body.selectedWorker = Absent THEN Null
                                      ELSE body.selectedWorker]]
          /\ last' = Response("createJob", Null, u, j, 0, 0, pay, 0, 201)

\* PUT /api/jobs/:id: findByIdAndUpdate(id, req.body)
UpdateJob(u, j, body) ==
  /\ UNCHANGED <<connectedUsers, sockets>>
  /\ UNCHANGED <<users, ledger, timers, inflight>>
  /\ LET job == jobs[j]
         Deny(code) == /\ last' = Response("updateJob", Null, u, j, 0, 0, 0, 0, code)
                       /\ UNCHANGED jobs
     IN IF ~Live(j) THEN Deny(404)
        ELSE IF job.employer # u THEN Deny(403)
        ELSE IF job.status # "active" THEN Deny(400)
        ELSE /\ jobs' = [jobs EXCEPT ![j] =
                   [job EXCEPT
                      !.status = IF body.status = Absent THEN @ ELSE body.status,
                      !.selectedWorker = IF body.selectedWorker = Absent THEN @
                                         ELSE body.selectedWorker]]
             /\ last' = Response("updateJob", Null, u, j, 0, 0, 0, 0, 200)

\* the deletion without the check of the job's status
DeleteJob_anyStatus(u, j) ==
  /\ UNCHANGED <<connectedUsers, sockets>>
  /\ UNCHANGED <<users, ledger, timers, inflight>>
  /\ LET job == jobs[j]
         Deny(code) == /\ last' = Response("deleteJob", Null, u, j, 0, 0, 0, 0, code)
                       /\ UNCHANGED jobs
     IN IF ~Live(j) THEN Deny(404)
        ELSE IF job.employer # u THEN Deny(403)
        ELSE /\ jobs' = [jobs EXCEPT ![j] = [NoJob EXCEPT !.exists = "gone"]]
             /\ last' = Response("deleteJob", Null, u, j, 0, 0, 0, 0, 200)

\* DELETE /api/jobs/:id
DeleteJob(u, j) ==
  /\ UNCHANGED <<connectedUsers, sockets>>
  /\ UNCHANGED <<users, ledger, timers, inflight>>
  /\ LET job == jobs[j]
         Deny(code) == /\ last' = Response("deleteJob", Null, u, j, 0, 0, 0, 0, code)
                       /\ UNCHANGED jobs
     IN IF ~Live(j) THEN Deny(404)
        ELSE IF job.employer # u THEN Deny(403)
        ELSE IF job.status # "active" THEN Deny(400)
        ELSE /\ jobs' = [jobs EXCEPT ![j] = [NoJob EXCEPT !.exists = "gone"]]
             /\ last' = Response("deleteJob", Null, u, j, 0, 0, 0, 0, 200)

\* the clock passes a job's expiresAt (the isExpired virtual turns true)
Expire(j) ==
  /\ UNCHANGED <<connectedUsers, sockets>>
  /\ Live(j) /\ ~jobs[j].expired
  /\ jobs' = [jobs EXCEPT ![j].expired = TRUE]
  /\ last' = Response("expire", Null, Null, j, 0, 0, 0, 0, 0)
  /\ UNCHANGED <<users, ledger, timers, inflight>>

\* the store's TTL index on expiresAt removes an expired job document
TTLDelete(j) ==
  /\ UNCHANGED <<connectedUsers, sockets>>
  /\ Live(j) /\ jobs[j].expired
  /\ jobs' = [jobs EXCEPT ![j] = [NoJob EXCEPT !.exists = "gone"]]
  /\ last' = Response("ttlDelete", Null, Null, j, 0, 0, 0, 0, 0)
  /\ UNCHANGED <<users, ledger, timers, inflight>>

\* ------------------------------------------------------- Transaction model

RECURSIVE SumCompleted(_, _, _)
SumCompleted(l, userId, n) ==
  IF n = 0 THEN 0
  ELSE SumCompleted(l, userId, n - 1)
       + (IF l[n].user = userId /\ l[n].status = "completed" THEN l[n].amount ELSE 0)

\* the $match / $sum aggregation over the stored entries
getUserBalance(l, userId) == SumCompleted(l, userId, Len(l))

\* user.save() validates wallet.balance (min 0) when the value was modified
UserSaveThrows(us, userId, balance) ==
  balance # us[userId].balance /\ balance < 0

\* Transaction.createTransaction(data) on the stored state (l, us): the entry
\* is saved, then the balance is recomputed and written.  ok is FALSE when a
\* save threw: the entry's own save (user is required) or the user's save.
createTransaction(l, us, data) ==
  IF data.user = Null
  THEN [ledger |-> l, users |-> us, ok |-> FALSE]
  ELSE LET saved == Append(l, data)
           balance == getUserBalance(saved, data.user)
       IN IF UserSaveThrows(us, data.user, balance)
          THEN [ledger |-> saved, users |-> us, ok |-> FALSE]
          ELSE [ledger |-> saved,
                users |-> [us EXCEPT ![data.user].balance = balance],
                ok |-> TRUE]

\* transaction.process() of the stored entry t: status is set on the
\* document, the balance is recomputed from the stored entries and written to
\* the user, and only then is the document saved.
process(l, us, t) ==
  LET balance == getUserBalance(l, l[t].user)
  IN IF UserSaveThrows(us, l[t].user, balance)
     THEN [ledger |-> l, users |-> us, ok |-> FALSE]
     ELSE [ledger |-> [l EXCEPT ![t].status = "completed"],
           users |-> [us EXCEPT ![l[t].user].balance = balance],
           ok |-> TRUE]

\* fail that marks the entry cancelled
fail_cancelled(l, t, reason) ==
  [l EXCEPT ![t].status = "cancelled", ![t].failureReason = reason]

\* transaction.fail(reason)
fail(l, t, reason) ==
  [l EXCEPT ![t].status = "failed", ![t].failureReason = reason]

Entry(u, type, amount, j, status) ==
  [user |-> u, type |-> type, amount |-> amount, job |-> j, status |-> status,
   failureReason |-> Null]

\* ---------------------------------------------------------- payments routes

\* the withdrawal without the look-up of the payment method
Withdraw_pmUnchecked(u, amount, pm) ==
  /\ UNCHANGED <<connectedUsers, sockets>>
  /\ UNCHANGED <<jobs, inflight>>
  /\ LET bal == users[u].balance
         Deny(code) == /\ last' = Response("withdraw", pm, u, 0, 0, 0, amount, bal, code)
                       /\ UNCHANGED <<users, ledger, timers>>
     IN IF bal < amount THEN Deny(400)
        ELSE /\ Len(ledger) < MaxTxns
             /\ LET r == createTransaction(ledger, users,
                            Entry(u, "withdrawal", 0 - amount, 0, "pending"))
                IN /\ ledger' = r.ledger
                   /\ users' = r.users
                   /\ timers' = IF r.ok THEN timers \cup {Len(r.ledger)} ELSE timers
                   /\ last' = Response("withdraw", pm, u, 0, 0, Len(r.ledger), amount, bal,
                                       IF r.ok THEN 200 ELSE 500)

\* POST /api/payments/withdraw
Withdraw(u, amount, pm) ==
  /\ UNCHANGED <<connectedUsers, sockets>>
  /\ UNCHANGED <<jobs, inflight>>
  /\ LET bal == users[u].balance
         Deny(code) == /\ last' = Response("withdraw", pm, u, 0, 0, 0, amount, bal, code)
                       /\ UNCHANGED <<users, ledger, timers>>
     IN IF bal < amount THEN Deny(400)
        ELSE IF pm \notin users[u].paymentMethods THEN Deny(404)
        ELSE /\ Len(ledger) < MaxTxns
             /\ LET r == createTransaction(ledger, users,
                            Entry(u, "withdrawal", 0 - amount, 0, "pending"))
                IN /\ ledger' = r.ledger
                   /\ users' = r.users
                   /\ timers' = IF r.ok THEN timers \cup {Len(r.ledger)} ELSE timers
                   /\ last' = Response("withdraw", pm, u, 0, 0, Len(r.ledger), amount, bal,
                                       IF r.ok THEN 200 ELSE 500)

\* POST /api/payments/add-payment-method.  valid: the body passes the
\* validators; isDefault: the body's isDefault; id: the _id the new
\* sub-document gets.  defaultMethods holds the methods whose isDefault is
\* true.  isDefault is a const binding of the destructured body, so the
\* assignment made for the first payment method throws a TypeError, which the
\* handler's catch answers with 500 before anything is saved
AddPaymentMethod(u, id, valid, isDefault) ==
  /\ UNCHANGED <<connectedUsers, sockets>>
  /\ id \notin users[u].paymentMethods
  /\ UNCHANGED <<jobs, ledger, timers, inflight>>
  /\ LET bal == users[u].balance
         Deny(code) == /\ last' = Response("addPaymentMethod", id, u, 0, 0, 0, 0, bal, code)
                       /\ UNCHANGED users
     IN IF ~valid THEN Deny(400)
        ELSE IF users[u].paymentMethods = {} THEN Deny(500)
        ELSE /\ users' = [users EXCEPT
                    ![u].paymentMethods = @ \cup {id},
                    ![u].defaultMethods = IF isDefault THEN {id} ELSE @]
             /\ last' = Response("addPaymentMethod", id, u, 0, 0, 0, 0, bal, 200)

\* the setTimeout callback of a withdrawal: process(), and fail() when it throws
Settle(t) ==
  /\ UNCHANGED <<connectedUsers, sockets>>
  /\ t \in timers
  /\ timers' = timers \ {t}
  /\ LET r == process(ledger, users, t)
     IN /\ ledger' = IF r.ok THEN r.ledger ELSE fail(ledger, t, "Processing failed")
        /\ users' = r.users
  /\ last' = Response("settle", Null, ledger[t].user, 0, 0, t, 0 - ledger[t].amount, 0, 0)
  /\ UNCHANGED <<jobs, inflight>>

\* a restart that keeps the pending timers
Crash_keepTimers ==
  /\ UNCHANGED <<connectedUsers, sockets>>
  /\ inflight' = [r \in Reqs |-> Idle]
  /\ last' = Response("crash", Null, Null, 0, 0, 0, 0, 0, 0)
  /\ UNCHANGED <<users, jobs, ledger, timers>>

\* the server process stops and is started again: the store keeps its
\* documents, the pending setTimeout callbacks and the requests being handled
\* are gone
Crash ==
  /\ UNCHANGED <<connectedUsers, sockets>>
  /\ timers' = {}
  /\ inflight' = [r \in Reqs |-> Idle]
  /\ last' = Response("crash", Null, Null, 0, 0, 0, 0, 0, 0)
  /\ UNCHANGED <<users, jobs, ledger>>

\* transaction.process() called on the stored entry t, outside a request; a
\* throw of user.save() leaves the store as it was
Process(t) ==
  /\ UNCHANGED <<connectedUsers, sockets>>
  /\ t \in 1..Len(ledger)
  /\ LET r == process(ledger, users, t)
     IN /\ ledger' = r.ledger
        /\ users' = r.users
        /\ last' = Response("process", IF r.ok THEN "returned" ELSE "threw",
                            ledger[t].user, 0, 0, t, 0, users[ledger[t].user].balance, 0)
  /\ UNCHANGED <<jobs, timers, inflight>>

\* fail followed by a recomputation of the owner's balance
Fail_recompute(t, reason) ==
  /\ UNCHANGED <<connectedUsers, sockets>>
  /\ t \in 1..Len(ledger)
  /\ ledger' = fail(ledger, t, reason)
  /\ users' = [users EXCEPT ![ledger[t].user].balance =
                 getUserBalance(ledger', ledger[t].user)]
  /\ last' = Response("fail", reason, ledger[t].user, 0, 0, t, 0,
                      users[ledger[t].user].balance, 0)
  /\ UNCHANGED <<jobs, timers, inflight>>

\* transaction.fail(reason) called on the stored entry t
Fail(t, reason) ==
  /\ UNCHANGED <<connectedUsers, sockets>>
  /\ t \in 1..Len(ledger)
  /\ ledger' = fail(ledger, t, reason)
  /\ last' = Response("fail", reason, ledger[t].user, 0, 0, t, 0,
                      users[ledger[t].user].balance, 0)
  /\ UNCHANGED <<users, jobs, timers, inflight>>

\* complete-job without the check of the caller
CompleteJob_anyCaller(u, j) ==
  /\ UNCHANGED <<connectedUsers, sockets>>
  /\ UNCHANGED <<timers, inflight>>
  /\ LET job == jobs[j]
         Deny(code) == /\ last' = Response("completeJob", Null, u, j, 0, 0, 0, 0, code)
                       /\ UNCHANGED <<users, jobs, ledger>>
     IN IF ~Live(j) THEN Deny(404)
        ELSE IF job.status # "in_progress" THEN Deny(400)
        ELSE LET completed == [job EXCEPT !.status = "completed", !.completedAt = TRUE]
                 r == createTransaction(ledger, users,
                        Entry(job.selectedWorker, "earned", job.payAmount, j, "completed"))
                 w == job.selectedWorker
             IN /\ ledger' = r.ledger
                /\ IF r.ok
                   THEN /\ jobs' = [jobs EXCEPT ![j] =
                              [completed EXCEPT !.payment =
                                 [status |-> "paid", amount |-> job.payAmount,
                                  transactionId |-> Len(r.ledger)]]]
                        /\ users' = [r.users EXCEPT
                              ![w].completedJobs = @ + 1,
                              ![w].totalEarnings = @ + job.payAmount]
                        /\ last' = Response("completeJob", Null, u, j, 0, Len(r.ledger),
                                            job.payAmount, users[w].balance, 200)
                   ELSE /\ jobs' = [jobs EXCEPT ![j] = completed]
                        /\ users' = r.users
                        /\ last' = Response("completeJob", Null, u, j, 0, 0, 0, 0, 500)

\* complete-job without the update of the worker's stats
CompleteJob_noStats(u, j) ==
  /\ UNCHANGED <<connectedUsers, sockets>>
  /\ UNCHANGED <<timers, inflight>>
  /\ LET job == jobs[j]
         Deny(code) == /\ last' = Response("completeJob", Null, u, j, 0, 0, 0, 0, code)
                       /\ UNCHANGED <<users, jobs, ledger>>
     IN IF ~Live(j) THEN Deny(404)
        ELSE IF job.employer # u THEN Deny(403)
        ELSE IF job.status # "in_progress" THEN Deny(400)
        ELSE LET completed == [job EXCEPT !.status = "completed", !.completedAt = TRUE]
                 r == createTransaction(ledger, users,
                        Entry(job.selectedWorker, "earned", job.payAmount, j, "completed"))
                 w == job.selectedWorker
             IN /\ ledger' = r.ledger
                /\ IF r.ok
                   THEN /\ jobs' = [jobs EXCEPT ![j] =
                              [completed EXCEPT !.payment =
                                 [status |-> "paid", amount |-> job.payAmount,
                                  transactionId |-> Len(r.ledger)]]]
                        /\ users' = r.users
                        /\ last' = Response("completeJob", Null, u, j, 0, Len(r.ledger),
                                            job.payAmount, users[w].balance, 200)
                   ELSE /\ jobs' = [jobs EXCEPT ![j] = completed]
                        /\ users' = r.users
                        /\ last' = Response("completeJob", Null, u, j, 0, 0, 0, 0, 500)

\* POST /api/payments/complete-job/:jobId
CompleteJob(u, j) ==
  /\ UNCHANGED <<connectedUsers, sockets>>
  /\ UNCHANGED <<timers, inflight>>
  /\ LET job == jobs[j]
         Deny(code) == /\ last' = Response("completeJob", Null, u, j, 0, 0, 0, 0, code)
                       /\ UNCHANGED <<users, jobs, ledger>>
     IN IF ~Live(j) THEN Deny(404)
        ELSE IF job.employer # u THEN Deny(403)
        ELSE IF job.status # "in_progress" THEN Deny(400)
        ELSE LET completed == [job EXCEPT !.status = "completed", !.completedAt = TRUE]
                 r == createTransaction(ledger, users,
                        Entry(job.selectedWorker, "earned", job.payAmount, j, "completed"))
                 w == job.selectedWorker
             IN /\ ledger' = r.ledger
                /\ IF r.ok
                   THEN /\ jobs' = [jobs EXCEPT ![j] =
                              [completed EXCEPT !.payment =
                                 [status |-> "paid", amount |-> job.payAmount,
                                  transactionId |-> Len(r.ledger)]]]
                        /\ users' = [r.users EXCEPT
                              ![w].completedJobs = @ + 1,
                              ![w].totalEarnings = @ + job.payAmount]
                        /\ last' = Response("completeJob", Null, u, j, 0, Len(r.ledger),
                                            job.payAmount, users[w].balance, 200)
                   ELSE /\ jobs' = [jobs EXCEPT ![j] = completed]
                        /\ users' = r.users
                        /\ last' = Response("completeJob", Null, u, j, 0, 0, 0, 0, 500)

\* ----------------------------------------------------------- ratings routes

\* Math.round(num / den) for num >= 0, den > 0
MathRound(num, den) == (2 * num + den) \div (2 * den)

\* Job.find({selectedWorker, 'completion.workerRating.rating': {$exists, $ne: null}})
\* on the store js
JobsWithWorkerRating(js, worker) ==
  { k \in JobIds : /\ js[k].exists = "live"
                   /\ js[k].selectedWorker = worker
                   /\ js[k].workerRating # 0 }

\* jobs.reduce((sum, j) => sum + j.completion.workerRating.rating, 0)
RECURSIVE SumWorkerRating(_, _)
SumWorkerRating(js, S) ==
  IF S = {} THEN 0
  ELSE LET k == CHOOSE x \in S : TRUE
       IN js[k].workerRating + SumWorkerRating(js, S \ {k})

\* the look-up of the caller's rating answering that none was given
existingRating_none(job, isEmployer) == 0

\* the rating the caller has given: the employer's or the worker's sub-record
existingRating(job, isEmployer) ==
  IF isEmployer THEN job.employerRating ELSE job.workerRating

\* the stats written by POST /api/ratings/:jobId: the stored average (kept in
\* tenths) times the stored count, plus the new rating, over the new count
addRating(stats, rating) ==
  [stats EXCEPT
     !.averageRating = MathRound(stats.averageRating * stats.totalReviews + 10 * rating,
                                 stats.totalReviews + 1),
     !.totalReviews = stats.totalReviews + 1]

\* POST /api/ratings/:jobId
RateJob(u, j, rating) ==
  /\ UNCHANGED <<connectedUsers, sockets>>
  /\ UNCHANGED <<ledger, timers, inflight>>
  /\ LET job == jobs[j]
         isEmployer == job.employer = u
         isWorker == job.selectedWorker = u
         Deny(code) == /\ last' = Response("rate", Null, u, j, 0, 0, rating, 0, code)
                       /\ UNCHANGED <<users, jobs>>
     IN IF ~Live(j) THEN Deny(404)
        ELSE IF job.status # "completed" THEN Deny(400)
        ELSE IF job.selectedWorker = Null THEN Deny(500)
        ELSE IF ~isEmployer /\ ~isWorker THEN Deny(403)
        ELSE IF existingRating(job, isEmployer) # 0
        THEN Deny(400)
        ELSE /\ jobs' = [jobs EXCEPT ![j] =
                   IF isEmployer THEN [job EXCEPT !.employerRating = rating]
                                 ELSE [job EXCEPT !.workerRating = rating]]
             /\ users' = IF isEmployer
                         THEN [users EXCEPT ![job.selectedWorker] = addRating(@, rating)]
                         ELSE users
             /\ last' = Response("rate", Null, u, j, 0, 0, rating, 0, 200)

\* PUT /api/ratings/:jobId.  With no job found the average is 0 / 0, which the
\* Number path of the schema does not take: worker.save() throws after the
\* job was saved
UpdateRating(u, j, rating) ==
  /\ UNCHANGED <<connectedUsers, sockets>>
  /\ UNCHANGED <<ledger, timers, inflight>>
  /\ LET job == jobs[j]
         isEmployer == job.employer = u
         isWorker == job.selectedWorker = u
         Deny(code) == /\ last' = Response("updateRating", Null, u, j, 0, 0, rating, 0, code)
                       /\ UNCHANGED <<users, jobs>>
     IN IF ~Live(j) THEN Deny(404)
        ELSE IF job.selectedWorker = Null THEN Deny(500)
        ELSE IF ~isEmployer /\ ~isWorker THEN Deny(403)
        ELSE IF existingRating(job, isEmployer) = 0
        THEN Deny(400)
        ELSE LET saved == [jobs EXCEPT ![j] =
                   IF isEmployer THEN [job EXCEPT !.employerRating = rating]
                                 ELSE [job EXCEPT !.workerRating = rating]]
                 found == JobsWithWorkerRating(saved, job.selectedWorker)
                 n == Cardinality(found)
             IN /\ jobs' = saved
                /\ IF ~isEmployer
                   THEN /\ UNCHANGED users
                        /\ last' = Response("updateRating", Null, u, j, 0, 0, rating, 0, 200)
                   ELSE IF n = 0
                   THEN /\ UNCHANGED users
                        /\ last' = Response("updateRating", Null, u, j, 0, 0, rating, 0, 500)
                   ELSE /\ users' = [users EXCEPT ![job.selectedWorker] =
                              [@ EXCEPT !.averageRating =
                                           MathRound(10 * SumWorkerRating(saved, found), n),
                                        !.totalReviews = n]]
                        /\ last' = Response("updateRating", Null, u, j, 0, 0, rating, 0, 200)

\* DELETE /api/ratings/:jobId
DeleteRating(u, j) ==
  /\ UNCHANGED <<connectedUsers, sockets>>
  /\ UNCHANGED <<ledger, timers, inflight>>
  /\ LET job == jobs[j]
         isEmployer == job.employer = u
         isWorker == job.selectedWorker = u
         Deny(code) == /\ last' = Response("deleteRating", Null, u, j, 0, 0, 0, 0, code)
                       /\ UNCHANGED <<users, jobs>>
     IN IF ~Live(j) THEN Deny(404)
        ELSE IF job.selectedWorker = Null THEN Deny(500)
        ELSE IF ~isEmployer /\ ~isWorker THEN Deny(403)
        ELSE IF existingRating(job, isEmployer) = 0
        THEN Deny(400)
        ELSE LET saved == [jobs EXCEPT ![j] =
                   IF isEmployer THEN [job EXCEPT !.employerRating = 0]
                                 ELSE [job EXCEPT !.workerRating = 0]]
                 found == JobsWithWorkerRating(saved, job.selectedWorker)
                 n == Cardinality(found)
             IN /\ jobs' = saved
                /\ users' = IF ~isEmployer THEN users
                            ELSE [users EXCEPT ![job.selectedWorker] =
                                    [@ EXCEPT !.averageRating =
                                                 IF n > 0
                                                 THEN MathRound(10 * SumWorkerRating(saved, found), n)
                                                 ELSE 0,
                                              !.totalReviews = n]]
                /\ last' = Response("deleteRating", Null, u, j, 0, 0, 0, 0, 200)

\* ------------------------------------------------------------ users routes

\* an auth middleware that lets every account through
Authenticated_any(u) == TRUE

\* the auth middleware lets the request of an account through
Authenticated(u) == users[u].isActive

\* a request to a route behind the auth middleware by a deactivated account
Deactivated(u) ==
  /\ UNCHANGED <<connectedUsers, sockets>>
  /\ ~Authenticated(u)
  /\ last' = Response("auth", Null, u, 0, 0, 0, 0, 0, 401)
  /\ UNCHANGED <<users, jobs, ledger, timers, inflight>>

\* the look-up that finds the jobs of the account as employer only
activeJobs_employerOnly(js, u) ==
  { k \in JobIds : /\ js[k].exists = "live"
                   /\ js[k].status \in {"active", "in_progress"}
                   /\ js[k].employer = u }

\* Job.find of DELETE /api/users/account: the jobs in status active or
\* in_progress of which the account is employer or selected worker
activeJobs(js, u) ==
  { k \in JobIds : /\ js[k].exists = "live"
                   /\ js[k].status \in {"active", "in_progress"}
                   /\ (js[k].employer = u \/ js[k].selectedWorker = u) }

\* DELETE /api/users/account, behind the auth middleware
DeleteAccount(u) ==
  /\ UNCHANGED <<connectedUsers, sockets>>
  /\ UNCHANGED <<jobs, ledger, timers, inflight>>
  /\ IF ~Authenticated(u)
     THEN /\ last' = Response("deleteAccount", Null, u, 0, 0, 0, 0, 0, 401)
          /\ UNCHANGED users
     ELSE IF activeJobs(jobs, u) # {}
     THEN /\ last' = Response("deleteAccount", Null, u, 0, 0, 0, 0, 0, 400)
          /\ UNCHANGED users
     ELSE /\ users' = [users EXCEPT ![u].isActive = FALSE,
                                     ![u].email = <<"deleted">> \o @]
          /\ last' = Response("deleteAccount", Null, u, 0, 0, 0, 0, 0, 200)

\* ----------------------------------------------------------- socket relay

Closed == "closed"

\* the connections that are open, and those of one account.  sockets[s] is
\* the account of the connection s, Null before s is used and Closed after
\* its disconnect; connectedUsers is the Map of the handler, Null where it
\* has no key
LiveSockets == { s \in SocketIds : sockets[s] \in Users }
SocketsOf(u) == { s \in SocketIds : sockets[s] = u }

\* io.use and io.on('connection'): the account u opens the connection s
Connect(s, u) ==
  /\ sockets[s] = Null
  /\ UNCHANGED <<users, jobs, ledger, timers, inflight>>
  /\ IF ~users[u].isActive
     THEN /\ UNCHANGED <<connectedUsers, sockets>>
          /\ last' = Response("connect", s, u, 0, 0, 0, 0, 0, 401)
     ELSE /\ sockets' = [sockets EXCEPT ![s] = u]
          /\ connectedUsers' = [connectedUsers EXCEPT ![u] = s]
          /\ last' = Response("connect", s, u, 0, 0, 0, 0, 0, 0)

\* socket.on('disconnect') of the connection s
Disconnect(s) ==
  /\ s \in LiveSockets
  /\ UNCHANGED <<users, jobs, ledger, timers, inflight>>
  /\ sockets' = [sockets EXCEPT ![s] = Closed]
  /\ connectedUsers' = [connectedUsers EXCEPT ![sockets[s]] = Null]
  /\ last' = Response("disconnect", s, sockets[s], 0, 0, 0, 0, 0, 0)

\* emitToUser(userId, event, data): the connections the event is delivered to
emitToUser(u) ==
  IF connectedUsers[u] # Null THEN {connectedUsers[u]} \cap LiveSockets ELSE {}

\* ------------------------------------------- requests split at their awaits

\* GET /api/jobs/:id: the views counter is the only path it saves
ViewJob(u, j) ==
  /\ UNCHANGED <<connectedUsers, sockets>>
  /\ UNCHANGED <<users, jobs, ledger, timers, inflight>>
  /\ last' = Response("view", Null, u, j, 0, 0, 0, 0, IF Live(j) THEN 200 ELSE 404)

\* the slot a request that starts takes: the lowest idle one
FreeSlot(r) ==
  /\ inflight[r] = Idle
  /\ \A q \in Reqs : q < r => inflight[q] # Idle

\* PUT /api/applications/:jobId/:applicationId with action accept, up to the
\* await of acceptApplication's save: the job is loaded and checked
AcceptLoad(r, u, j, a) ==
  /\ UNCHANGED <<connectedUsers, sockets>>
  /\ FreeSlot(r)
  /\ UNCHANGED <<users, jobs, ledger, timers>>
  /\ LET job == jobs[j]
         i == AppIndex(job, a)
         Deny(code) == /\ last' = Response("putApplication", "accept", u, j, a, 0, 0, 0, code)
                       /\ UNCHANGED inflight
     IN IF ~Live(j) \/ i = 0 THEN Deny(404)
        ELSE IF NotAuthorized(job, i, u, "accept") THEN Deny(403)
        ELSE IF job.status # "active" THEN Deny(400)
        ELSE /\ inflight' = [inflight EXCEPT ![r] =
                   [op |-> "accept", step |-> 1, user |-> u, job |-> j, app |-> a,
                    index |-> i, worker |-> job.applications[i].worker,
                    version |-> job.version]]
             /\ last' = Response("acceptLoad", "accept", u, j, a, 0, 0, 0, 0)

\* the first save with a second look at the stored status
AcceptSave1_recheck(r) ==
  /\ UNCHANGED <<connectedUsers, sockets>>
  /\ inflight[r] # Idle /\ inflight[r].op = "accept" /\ inflight[r].step = 1
  /\ UNCHANGED <<users, ledger, timers>>
  /\ LET q == inflight[r]
         j == q.job
     IN IF ~Live(j) \/ jobs[j].version # q.version \/ jobs[j].status # "active"
        THEN /\ inflight' = [inflight EXCEPT ![r] = Idle]
             /\ UNCHANGED jobs
             /\ last' = Response("putApplication", "accept", q.user, j, q.app, 0, 0, 0, 500)
        ELSE /\ inflight' = [inflight EXCEPT ![r].step = 2]
             /\ jobs' = [jobs EXCEPT ![j] = acceptApplication(jobs[j], q.index)]
             /\ last' = Response("acceptSave", "accept", q.user, j, q.app, 0, 0, 0, 0)

\* the save of acceptApplication lands: the application's status (by its
\* position, under the loaded __v), selectedWorker and status are written
AcceptSave1(r) ==
  /\ UNCHANGED <<connectedUsers, sockets>>
  /\ inflight[r] # Idle /\ inflight[r].op = "accept" /\ inflight[r].step = 1
  /\ UNCHANGED <<users, ledger, timers>>
  /\ LET q == inflight[r]
         j == q.job
     IN IF ~Live(j) \/ jobs[j].version # q.version
        THEN /\ inflight' = [inflight EXCEPT ![r] = Idle]
             /\ UNCHANGED jobs
             /\ last' = Response("putApplication", "accept", q.user, j, q.app, 0, 0, 0, 500)
        ELSE /\ inflight' = [inflight EXCEPT ![r].step = 2]
             /\ jobs' = [jobs EXCEPT ![j] = acceptApplication(jobs[j], q.index)]
             /\ last' = Response("acceptSave", "accept", q.user, j, q.app, 0, 0, 0, 0)

\* the route's own save lands: status is in_progress on the document already
\* and is not written again, completion.startedAt is.  The save of a
\* document the store no longer holds throws or not, by the mongoose version
AcceptSave2(r) ==
  /\ UNCHANGED <<connectedUsers, sockets>>
  /\ inflight[r] # Idle /\ inflight[r].op = "accept" /\ inflight[r].step = 2
  /\ inflight' = [inflight EXCEPT ![r] = Idle]
  /\ UNCHANGED <<users, ledger, timers>>
  /\ LET q == inflight[r]
         j == q.job
     IN IF ~Live(j)
        THEN /\ UNCHANGED jobs
             /\ \E code \in {200, 500} :
                  last' = Response("putApplication", "accept", q.user, j, q.app, 0, 0, 0, code)
        ELSE /\ jobs' = [jobs EXCEPT ![j].startedAt = TRUE]
             /\ last' = Response("putApplication", "accept", q.user, j, q.app, 0, 0, 0, 200)

\* PUT /api/jobs/:id up to the await of findByIdAndUpdate
UpdateLoad(r, u, j, body) ==
  /\ UNCHANGED <<connectedUsers, sockets>>
  /\ FreeSlot(r)
  /\ UNCHANGED <<users, jobs, ledger, timers>>
  /\ LET job == jobs[j]
         Deny(code) == /\ last' = Response("updateJob", Null, u, j, 0, 0, 0, 0, code)
                       /\ UNCHANGED inflight
     IN IF ~Live(j) THEN Deny(404)
        ELSE IF job.employer # u THEN Deny(403)
        ELSE IF job.status # "active" THEN Deny(400)
        ELSE /\ inflight' = [inflight EXCEPT ![r] =
                   [op |-> "update", user |-> u, job |-> j, body |-> body]]
             /\ last' = Response("updateLoad", Null, u, j, 0, 0, 0, 0, 0)

\* findByIdAndUpdate(id, req.body) lands; with no document it returns null
\* and the route answers 200
UpdateSave(r) ==
  /\ UNCHANGED <<connectedUsers, sockets>>
  /\ inflight[r] # Idle /\ inflight[r].op = "update"
  /\ inflight' = [inflight EXCEPT ![r] = Idle]
  /\ UNCHANGED <<users, ledger, timers>>
  /\ LET q == inflight[r]
         j == q.job
     IN /\ jobs' = IF ~Live(j) THEN jobs
                   ELSE [jobs EXCEPT ![j] =
                     [@ EXCEPT
                        !.status = IF q.body.status = Absent THEN @ ELSE q.body.status,
                        !.selectedWorker = IF q.body.selectedWorker = Absent THEN @
                                           ELSE q.body.selectedWorker]]
        /\ last' = Response("updateJob", Null, q.user, j, 0, 0, 0, 0, 200)

\* POST /api/payments/complete-job/:jobId up to the await of its first save
CompleteLoad(r, u, j) ==
  /\ UNCHANGED <<connectedUsers, sockets>>
  /\ FreeSlot(r)
  /\ UNCHANGED <<users, jobs, ledger, timers>>
  /\ LET job == jobs[j]
         Deny(code) == /\ last' = Response("completeJob", Null, u, j, 0, 0, 0, 0, code)
                       /\ UNCHANGED inflight
     IN IF ~Live(j) THEN Deny(404)
        ELSE IF job.employer # u THEN Deny(403)
        ELSE IF job.status # "in_progress" THEN Deny(400)
        ELSE /\ inflight' = [inflight EXCEPT ![r] =
                   [op |-> "complete", user |-> u, job |-> j,
                    worker |-> job.selectedWorker, pay |-> job.payAmount]]
             /\ last' = Response("completeLoad", Null, u, j, 0, 0, 0, 0, 0)

\* the rest of that request: status and completedAt are saved, the earned
\* entry is created from the loaded document, payment and stats are written.
\* The save of a document the store no longer holds throws or not, by the
\* mongoose version
CompleteSave(r) ==
  /\ UNCHANGED <<connectedUsers, sockets>>
  /\ inflight[r] # Idle /\ inflight[r].op = "complete"
  /\ inflight' = [inflight EXCEPT ![r] = Idle]
  /\ UNCHANGED timers
  /\ LET q == inflight[r]
         j == q.job
         w == q.worker
         t == createTransaction(ledger, users,
                Entry(w, "earned", q.pay, j, "completed"))
     IN \E throws \in (IF Live(j) THEN {FALSE} ELSE {FALSE, TRUE}) :
          IF throws
          THEN /\ UNCHANGED <<users, jobs, ledger>>
               /\ last' = Response("completeJob", Null, q.user, j, 0, 0, 0, 0, 500)
          ELSE /\ ledger' = t.ledger
               /\ jobs' = IF ~Live(j) THEN jobs
                          ELSE [jobs EXCEPT ![j] =
                            [@ EXCEPT !.status = "completed", !.completedAt = TRUE,
                                      !.payment = IF t.ok
                                                  THEN [status |-> "paid", amount |-> q.pay,
                                                        transactionId |-> Len(t.ledger)]
                                                  ELSE @]]
               /\ users' = IF t.ok
                           THEN [t.users EXCEPT ![w].completedJobs = @ + 1,
                                               ![w].totalEarnings = @ + q.pay]
                           ELSE t.users
               /\ last' = IF t.ok
                          THEN Response("completeJob", Null, q.user, j, 0, Len(t.ledger),
                                        q.pay, users[w].balance, 200)
                          ELSE Response("completeJob", Null, q.user, j, 0, 0, 0, 0, 500)

\* ----------------------------------------------------------- specification

Actions == {"accept", "reject", "withdraw"}
EmptyBody == [status |-> Absent, selectedWorker |-> Absent]

\* the job routes, the clock and the store's TTL monitor
JobRequests(Us, Js, Bs) ==
  \/ \E u \in Us, j \in Js, body \in Bs, pay \in PayAmounts : CreateJob(u, j, body, pay)
  \/ \E u \in Us, j \in Js, body \in Bs : UpdateJob(u, j, body)
  \/ \E u \in Us, j \in Js : DeleteJob(u, j)
  \/ \E j \in Js : Expire(j)
  \/ \E j \in Js : TTLDelete(j)

ApplicationRequests(Us, Js) ==
  \/ \E u \in Us, j \in Js, pp \in ProposedPays : PostApplication(u, j, pp)
  \/ \E u \in Us, j \in Js, a \in 1..MaxApps, action \in Actions :
        PutApplication(u, j, a, action)
  \/ \E u \in Us, j \in Js : DeleteApplication(u, j)

PaymentRequests(Us, Js) ==
  \/ \E u \in Us, amount \in WithdrawAmounts, pm \in PMIds : Withdraw(u, amount, pm)
  \/ \E t \in timers : Settle(t)
  \/ \E u \in Us, j \in Js : CompleteJob(u, j)

\* requests handled one at a time, on one job posted by any body
Next ==
  \/ JobRequests(Users, {1}, Bodies)
  \/ ApplicationRequests(Users, {1})
  \/ PaymentRequests(Users, {1})

Spec == Init /\ [][Next]_vars

\* requests handled one at a time, on jobs posted one after the other with
\* the schema defaults, by the employer and one worker
NextLedger ==
  \/ JobRequests({"e1", "w1"}, LedgerJobIds, {EmptyBody})
  \/ ApplicationRequests({"e1", "w1"}, LedgerJobIds)
  \/ PaymentRequests({"e1", "w1"}, LedgerJobIds)

SpecLedger == Init /\ [][NextLedger]_vars

\* the application requests on one job, with POST /api/applications/:jobId
\* interleaved at its await points with the other requests
NextConc ==
  \/ JobRequests(Users, {1}, {EmptyBody})
  \/ \E r \in Reqs, u \in Users, pp \in ProposedPays : ApplyLoad(r, u, 1, pp)
  \/ \E r \in Reqs : ApplySave(r)
  \/ \E u \in Users, a \in 1..MaxApps, action \in Actions : PutApplication(u, 1, a, action)
  \/ \E u \in Users : DeleteApplication(u, 1)

SpecConc == Init /\ [][NextConc]_vars

RatingRequests(Us, Js) ==
  \/ \E u \in Us, j \in Js, rating \in Ratings : RateJob(u, j, rating)
  \/ \E u \in Us, j \in Js, rating \in Ratings : UpdateRating(u, j, rating)
  \/ \E u \in Us, j \in Js : DeleteRating(u, j)

\* requests handled one at a time on one job posted with the schema defaults,
\* the ratings routes among them
NextRatings ==
  \/ JobRequests(Users, {1}, {EmptyBody})
  \/ ApplicationRequests(Users, {1})
  \/ \E u \in Users : CompleteJob(u, 1)
  \/ RatingRequests(Users, {1})

SpecRatings == Init /\ [][NextRatings]_vars

\* the store after the employer e1 has completed every job with the worker w1:
\* what CreateJob, PostApplication, PutApplication (accept) and CompleteJob
\* leave for each job
CompletedJob(j) ==
  [NoJob EXCEPT !.exists = "live", !.employer = "e1", !.payAmount = 2,
     !.status = "completed", !.selectedWorker = "w1",
     !.applications = <<[id |-> 1, worker |-> "w1", status |-> "accepted",
                         proposedPay |-> 3]>>,
     !.applicationsCount = 1, !.startedAt = TRUE, !.completedAt = TRUE,
     !.payment = [status |-> "paid", amount |-> 2, transactionId |-> j],
     !.version = 1, !.appSeq = 1]

InitCompleted ==
  /\ connectedUsers = [u \in Users |-> Null]
  /\ sockets = [s \in SocketIds |-> Null]
  /\ jobs = [j \in JobIds |-> CompletedJob(j)]
  /\ ledger = [j \in JobIds |-> Entry("w1", "earned", 2, j, "completed")]
  /\ users = [u \in Users |->
       [balance |-> IF u = "w1" THEN 2 * Cardinality(JobIds) ELSE 0,
        paymentMethods |-> paymentMethodsAtStart[u],
        defaultMethods |-> paymentMethodsAtStart[u],
        completedJobs |-> IF u = "w1" THEN Cardinality(JobIds) ELSE 0,
        totalEarnings |-> IF u = "w1" THEN 2 * Cardinality(JobIds) ELSE 0,
        averageRating |-> 0, totalReviews |-> 0,
        isActive |-> TRUE, email |-> <<u>>]]
  /\ timers = {}
  /\ inflight = [r \in Reqs |-> Idle]
  /\ last = Response("none", Null, Null, 0, 0, 0, 0, 0, 0)

\* the employer rates the completed jobs, in any order
NextAverage == \E j \in JobIds, rating \in Ratings : RateJob("e1", j, rating)

SpecAverage == InitCompleted /\ [][NextAverage]_vars

\* the bodies of PUT /api/jobs/:id in the interleaved specification
RaceBodies == { EmptyBody, [status |-> "cancelled", selectedWorker |-> Absent] }

\* the requests on one job with accept, job update and complete-job
\* interleaved at their awaits with each other and with the other requests
NextRace ==
  \/ \E u \in Users, pay \in PayAmounts : CreateJob(u, 1, EmptyBody, pay)
  \/ \E u \in Users : DeleteJob(u, 1)
  \/ \E u \in Users, pp \in ProposedPays : PostApplication(u, 1, pp)
  \/ \E u \in Users, a \in 1..MaxApps, action \in {"reject", "withdraw"} :
        PutApplication(u, 1, a, action)
  \/ \E u \in Users : DeleteApplication(u, 1)
  \/ ViewJob("w2", 1)
  \/ \E rating \in Ratings : RateJob("e1", 1, rating)
  \/ \E r \in Reqs, u \in Users, a \in 1..MaxApps : AcceptLoad(r, u, 1, a)
  \/ \E r \in Reqs : AcceptSave1(r)
  \/ \E r \in Reqs : AcceptSave2(r)
  \/ \E r \in Reqs, u \in Users, body \in RaceBodies : UpdateLoad(r, u, 1, body)
  \/ \E r \in Reqs : UpdateSave(r)
  \/ \E r \in Reqs, u \in Users : CompleteLoad(r, u, 1)
  \/ \E r \in Reqs : CompleteSave(r)

SpecRace == Init /\ [][NextRace]_vars

\* the methods of a ledger entry called on the stored entries, between the
\* requests that take one job of e1 with the worker w1 to completed and the
\* withdrawals of w1
NextEntries ==
  \/ \E pay \in PayAmounts : CreateJob("e1", 1, EmptyBody, pay)
  \/ \E pp \in ProposedPays : PostApplication("w1", 1, pp)
  \/ PutApplication("e1", 1, 1, "accept")
  \/ CompleteJob("e1", 1)
  \/ \E amount \in WithdrawAmounts, pm \in PMIds : Withdraw("w1", amount, pm)
  \/ \E t \in timers : Settle(t)
  \/ \E t \in 1..MaxTxns : Process(t)
  \/ \E t \in 1..MaxTxns : Fail(t, "Processing failed")

SpecEntries == Init /\ [][NextEntries]_vars

\* the store after the employer e1 has posted two jobs with the schema defaults
PostedJob == [NoJob EXCEPT !.exists = "live", !.employer = "e1", !.payAmount = 2]

InitPosted ==
  /\ connectedUsers = [u \in Users |-> Null]
  /\ sockets = [s \in SocketIds |-> Null]
  /\ jobs = [j \in JobIds |-> IF j \in {1, 2} THEN PostedJob ELSE NoJob]
  /\ users = [u \in Users |->
       [balance |-> 0, paymentMethods |-> paymentMethodsAtStart[u],
        defaultMethods |-> paymentMethodsAtStart[u],
        completedJobs |-> 0, totalEarnings |-> 0,
        averageRating |-> 0, totalReviews |-> 0,
        isActive |-> TRUE, email |-> <<u>>]]
  /\ ledger = <<>>
  /\ timers = {}
  /\ inflight = [r \in Reqs |-> Idle]
  /\ last = Response("none", Null, Null, 0, 0, 0, 0, 0, 0)

\* the queries of GET /api/applications/my: without and with a status
ListStatuses == {Absent, "pending"}

\* the application requests on the two jobs and the two listings
NextLists ==
  \/ \E u \in Users, j \in {1, 2}, pp \in ProposedPays : PostApplication(u, j, pp)
  \/ \E j \in {1, 2}, a \in 1..MaxApps, action \in {"accept", "reject"} :
        PutApplication("e1", j, a, action)
  \/ \E u \in Users, j \in {1, 2} : DeleteApplication(u, j)
  \/ \E u \in Users, j \in {1, 2} : JobApplications(u, j)
  \/ \E u \in Users, status \in ListStatuses : MyApplications(u, status)

SpecLists == InitPosted /\ [][NextLists]_vars

\* requests handled one at a time on one job, each behind the auth
\* middleware but the view of a job (optionalAuth), and the deletion of accounts
NextAccounts ==
  \/ \E u \in Users, body \in Bodies, pay \in PayAmounts :
        Authenticated(u) /\ CreateJob(u, 1, body, pay)
  \/ \E u \in Users, body \in Bodies : Authenticated(u) /\ UpdateJob(u, 1, body)
  \/ \E u \in Users : Authenticated(u) /\ DeleteJob(u, 1)
  \/ \E u \in Users, pp \in ProposedPays : Authenticated(u) /\ PostApplication(u, 1, pp)
  \/ \E u \in Users, a \in 1..MaxApps :
        Authenticated(u) /\ PutApplication(u, 1, a, "accept")
  \/ \E u \in Users : Authenticated(u) /\ CompleteJob(u, 1)
  \/ Expire(1)
  \/ TTLDelete(1)
  \/ \E u \in Users : ViewJob(u, 1)
  \/ \E u \in Users : Deactivated(u)
  \/ \E u \in Users : DeleteAccount(u)

SpecAccounts == Init /\ [][NextAccounts]_vars

\* the requests that take one job of e1 with the worker w1 to completed, the
\* withdrawals of w1 with their settlements, and restarts of the server
NextCrash ==
  \/ \E pay \in PayAmounts : CreateJob("e1", 1, EmptyBody, pay)
  \/ \E pp \in ProposedPays : PostApplication("w1", 1, pp)
  \/ PutApplication("e1", 1, 1, "accept")
  \/ CompleteJob("e1", 1)
  \/ \E amount \in WithdrawAmounts, pm \in PMIds : Withdraw("w1", amount, pm)
  \/ \E t \in timers : Settle(t)
  \/ Crash

SpecCrash == Init /\ [][NextCrash]_vars

\* init-db.js: the wallet balances of sampleUsers.  The employer account is
\* e1, the worker account w1 and the admin account w2
sampleUsers == [u \in Users |-> CASE u = "e1" -> 1000 [] u = "w1" -> 250 [] u = "w2" -> 0]

\* pay.amount of sampleJobs
sampleJobs == <<25, 20, 150>>

\* type, amount and status of sampleTransactions
sampleTransactions ==
  << [type |-> "earned", amount |-> 75, status |-> "completed"],
     [type |-> "withdrawal", amount |-> 50, status |-> "completed"] >>

\* the store after initializeDatabase: the accounts, the jobs with the first
\* account as employer, the ledger entries with the second account as owner
InitSeed ==
  /\ connectedUsers = [u \in Users |-> Null]
  /\ sockets = [s \in SocketIds |-> Null]
  /\ users = [u \in Users |->
       [balance |-> sampleUsers[u], paymentMethods |-> {}, defaultMethods |-> {},
        completedJobs |-> 0, totalEarnings |-> 0,
        averageRating |-> 0, totalReviews |-> 0,
        isActive |-> TRUE, email |-> <<u>>]]
  /\ jobs = [j \in JobIds |->
       IF j \in 1..Len(sampleJobs)
       THEN [NoJob EXCEPT !.exists = "live", !.employer = "e1",
                          !.payAmount = sampleJobs[j]]
       ELSE NoJob]
  /\ ledger = [t \in 1..Len(sampleTransactions) |->
       Entry("w1", sampleTransactions[t].type, sampleTransactions[t].amount, 0,
             sampleTransactions[t].status)]
  /\ timers = {}
  /\ inflight = [r \in Reqs |-> Idle]
  /\ last = Response("initDb", Null, Null, 0, 0, 0, 0, 0, 0)

\* the application and payment requests on the first seeded job
NextSeed ==
  \/ ApplicationRequests(Users, {1})
  \/ \E u \in Users, amount \in WithdrawAmounts, pm \in PMIds : Withdraw(u, amount, pm)
  \/ \E u \in Users : CompleteJob(u, 1)

SpecSeed == InitSeed /\ [][NextSeed]_vars

\* body amount of the withdrawals of the settlement specification
SettleAmounts == {1, 2}

\* the requests that take one job of e1 with the worker w1 to completed, and
\* the withdrawals of w1 with their settlements
NextSettle ==
  \/ \E pay \in PayAmounts : CreateJob("e1", 1, EmptyBody, pay)
  \/ \E pp \in ProposedPays : PostApplication("w1", 1, pp)
  \/ PutApplication("e1", 1, 1, "accept")
  \/ CompleteJob("e1", 1)
  \/ \E amount \in SettleAmounts : Withdraw("w1", amount, "pm1")
  \/ \E t \in 1..MaxTxns : Settle(t)

\* the server keeps running: a timer that was set fires
SpecSettle ==
  Init /\ [][NextSettle]_vars /\ \A t \in 1..MaxTxns : WF_vars(Settle(t))

\* applications, accepts and the two ways of withdrawing on one job posted
\* with the schema defaults
NextReapply ==
  \/ JobRequests(Users, {1}, {EmptyBody})
  \/ \E u \in Users, pp \in ProposedPays : PostApplication(u, 1, pp)
  \/ \E u \in Users, a \in 1..MaxApps, action \in {"accept", "withdraw"} :
        PutApplication(u, 1, a, action)
  \/ \E u \in Users : DeleteApplication(u, 1)

SpecReapply == Init /\ [][NextReapply]_vars

\* the payment methods of the accounts: they are added between the requests
\* that take one job of e1 to completed, and named by the withdrawals of the
\* workers
NextMethods ==
  \/ \E pay \in PayAmounts : CreateJob("e1", 1, EmptyBody, pay)
  \/ \E u \in {"w1", "w2"}, pp \in ProposedPays : PostApplication(u, 1, pp)
  \/ \E a \in 1..MaxApps : PutApplication("e1", 1, a, "accept")
  \/ CompleteJob("e1", 1)
  \/ \E u \in Users, id \in NewPMIds, valid \in BOOLEAN, isDefault \in BOOLEAN :
        AddPaymentMethod(u, id, valid, isDefault)
  \/ \E u \in {"w1", "w2"}, amount \in WithdrawAmounts, pm \in PMIds \cup NewPMIds :
        Withdraw(u, amount, pm)
  \/ \E t \in timers : Settle(t)

SpecMethods == Init /\ [][NextMethods]_vars

\* the connect and disconnect events of the socket relay, in any order and
\* with several connections of one account open at once
NextRelay ==
  \/ \E s \in SocketIds, u \in Users : Connect(s, u)
  \/ \E s \in SocketIds : Disconnect(s)

SpecRelay == Init /\ [][NextRelay]_vars

\* ------------------------------------------------------------------ claims

\* C1: in every state between requests, each account's wallet.balance is the
\* sum of the amounts of its ledger entries with status completed
C1_BalanceIsCompletedSum ==
  \A u \in Users : users[u].balance = getUserBalance(ledger, u)

\* C2: a withdrawal of a with 1 <= a <= balance b and an existing payment
\* method creates a pending entry of type withdrawal and amount -a; when its
\* settlement runs next, the entry is completed and the balance is b - a
C2_WithdrawThenSettle ==
  [][ /\ \A u \in Users :
           ( /\ last'.op = "withdraw" /\ last'.user = u
             /\ last'.amt >= 1 /\ last'.amt <= users[u].balance
             /\ last'.arg \in users[u].paymentMethods )
           => ( /\ Len(ledger') = Len(ledger) + 1
                /\ ledger'[Len(ledger')] =
                     Entry(u, "withdrawal", 0 - last'.amt, 0, "pending")
                /\ last'.txn = Len(ledger') )
      /\ ( /\ last.op = "withdraw" /\ last.code = 200
           /\ last'.op = "settle" /\ last'.txn = last.txn )
         => ( /\ ledger'[last.txn].status = "completed"
              /\ users'[last.user].balance = last.bal - last.amt )
    ]_vars

\* C3: when the employer completes an in_progress job, the job becomes
\* completed, one entry of type earned, status completed and amount
\* pay.amount is created for selectedWorker, and that worker's wallet.balance
\* grows by pay.amount
C3_CompleteJobPays ==
  [][ \A j \in JobIds :
        ( /\ last'.op = "completeJob" /\ last'.job = j
          /\ Live(j) /\ last'.user = jobs[j].employer
          /\ jobs[j].status = "in_progress" )
        => ( /\ jobs'[j].status = "completed"
             /\ Len(ledger') = Len(ledger) + 1
             /\ ledger'[Len(ledger')] =
                  Entry(jobs[j].selectedWorker, "earned", jobs[j].payAmount, j,
                        "completed")
             /\ users'[jobs[j].selectedWorker].balance =
                  users[jobs[j].selectedWorker].balance + jobs[j].payAmount )
    ]_vars

\* C4: an accept by the employer of a pending application of an active job
\* leaves the job in_progress with selectedWorker the application's worker,
\* the application accepted and completion.startedAt set
C4_AcceptEffects ==
  [][ \A j \in JobIds, a \in 1..MaxApps :
        ( /\ last'.op = "putApplication" /\ last'.arg = "accept"
          /\ last'.job = j /\ last'.app = a
          /\ Live(j) /\ AppIndex(jobs[j], a) # 0
          /\ last'.user = jobs[j].employer
          /\ jobs[j].status = "active"
          /\ jobs[j].applications[AppIndex(jobs[j], a)].status = "pending" )
        => LET i == AppIndex(jobs[j], a)
           IN /\ last'.code = 200
              /\ jobs'[j].status = "in_progress"
              /\ jobs'[j].selectedWorker = jobs[j].applications[i].worker
              /\ jobs'[j].applications[i].status = "accepted"
              /\ jobs'[j].startedAt
    ]_vars

C4_Witness ==
  /\ last.op = "putApplication" /\ last.arg = "accept" /\ last.code = 200
  /\ jobs[last.job].status = "in_progress"
  /\ jobs[last.job].selectedWorker = "w2"
  /\ jobs[last.job].startedAt
  /\ jobs[last.job].applications[AppIndex(jobs[last.job], last.app)].status = "accepted"

\* C5: a job's selectedWorker is set exactly when its status is in_progress
\* or completed
C5_SelectedWorkerIffStarted ==
  \A j \in JobIds :
    Live(j) => ( jobs[j].selectedWorker # Null
                 <=> jobs[j].status \in {"in_progress", "completed"} )

C7_SecondApplicationRefused ==
  [][ \A j \in JobIds, u \in Users :
        ( /\ last'.op = "apply" /\ last'.user = u /\ last'.job = j
          /\ Live(j)
          /\ \E i \in 1..Len(jobs[j].applications) :
                /\ jobs[j].applications[i].worker = u
                /\ jobs[j].applications[i].status # "withdrawn" )
        => ( /\ last'.code = 400
             /\ jobs'[j].applications = jobs[j].applications
             /\ jobs'[j].applicationsCount = jobs[j].applicationsCount )
    ]_vars

C7_Witness ==
  /\ last.op = "apply" /\ last.code = 400
  /\ Live(last.job)
  /\ jobs[last.job].status = "active" /\ ~jobs[last.job].expired
  /\ \E i \in 1..Len(jobs[last.job].applications) :
        /\ jobs[last.job].applications[i].worker = last.user
        /\ jobs[last.job].applications[i].status = "pending"

\* C8: a job holds at most one application that is not withdrawn per worker
C8_OneApplicationPerWorker ==
  \A j \in JobIds, u \in Users :
    Live(j) =>
      Cardinality({ i \in 1..Len(jobs[j].applications) :
                      /\ jobs[j].applications[i].worker = u
                      /\ jobs[j].applications[i].status # "withdrawn" }) <= 1

\* C9: an accept or reject by an account that is not the job's employer, and a
\* withdraw by an account that is not the application's worker, is answered
\* 403 and changes nothing
C9_OthersGet403 ==
  [][ \A j \in JobIds, a \in 1..MaxApps :
        ( /\ last'.op = "putApplication" /\ last'.job = j /\ last'.app = a
          /\ Live(j) /\ AppIndex(jobs[j], a) # 0
          /\ \/ /\ last'.arg \in {"accept", "reject"}
                /\ last'.user # jobs[j].employer
             \/ /\ last'.arg = "withdraw"
                /\ last'.user # jobs[j].applications[AppIndex(jobs[j], a)].worker )
        => ( /\ last'.code = 403
             /\ UNCHANGED <<users, jobs, ledger>> )
    ]_vars

C9_Witness ==
  /\ last.op = "putApplication" /\ last.arg = "reject" /\ last.code = 403
  /\ Live(last.job) /\ last.user # jobs[last.job].employer
  /\ AppIndex(jobs[last.job], last.app) # 0
  /\ jobs[last.job].applications[AppIndex(jobs[last.job], last.app)].status = "pending"

\* C10: an accept by the employer succeeds only on a pending application of
\* an active job; otherwise it is answered 400 and leaves the job as it was
C10_AcceptNeedsPending ==
  [][ \A j \in JobIds, a \in 1..MaxApps :
        ( /\ last'.op = "putApplication" /\ last'.arg = "accept"
          /\ last'.job = j /\ last'.app = a
          /\ Live(j) /\ AppIndex(jobs[j], a) # 0
          /\ last'.user = jobs[j].employer
          /\ ~ ( /\ jobs[j].status = "active"
                 /\ jobs[j].applications[AppIndex(jobs[j], a)].status = "pending" ) )
        => ( last'.code = 400 /\ jobs'[j] = jobs[j] )
    ]_vars

\* C11: a withdraw (PUT) by the applicant of an application that is not
\* pending is refused and leaves the job document as it was, and a DELETE
\* removes applications only of a caller whose application is pending
C11_WithdrawOnlyPending ==
  [][ /\ \A j \in JobIds, a \in 1..MaxApps :
           ( /\ last'.op = "putApplication" /\ last'.arg = "withdraw"
             /\ last'.job = j /\ last'.app = a
             /\ Live(j) /\ AppIndex(jobs[j], a) # 0
             /\ last'.user = jobs[j].applications[AppIndex(jobs[j], a)].worker
             /\ jobs[j].applications[AppIndex(jobs[j], a)].status # "pending" )
           => ( last'.code # 200 /\ jobs'[j] = jobs[j] )
      /\ \A j \in JobIds :
           ( /\ last'.op = "deleteApplication" /\ last'.job = j /\ Live(j)
             /\ jobs'[j].applications # jobs[j].applications )
           => ( /\ FirstAppOf(jobs[j], last'.user) # 0
                /\ jobs[j].applications[FirstAppOf(jobs[j], last'.user)].status = "pending" )
    ]_vars

\* C12: a reject by the job's owner changes the job document only when the
\* application is pending and the job is active
C12_RejectOnlyPendingOnActive ==
  [][ \A j \in JobIds, a \in 1..MaxApps :
        ( /\ last'.op = "putApplication" /\ last'.arg = "reject"
          /\ last'.job = j /\ last'.app = a
          /\ Live(j) /\ AppIndex(jobs[j], a) # 0
          /\ last'.user = jobs[j].employer
          /\ ~ ( /\ jobs[j].status = "active"
                 /\ jobs[j].applications[AppIndex(jobs[j], a)].status = "pending" ) )
        => jobs'[j] = jobs[j]
    ]_vars

\* C13: POST /api/ratings/:jobId on a job that is not completed, or by the
\* employer or the selected worker who has a rating on the job, is answered
\* 400 and leaves the jobs and the accounts as they were
C13_RatingRefused ==
  [][ \A j \in JobIds, u \in Users :
        ( /\ last'.op = "rate" /\ last'.job = j /\ last'.user = u /\ Live(j)
          /\ \/ jobs[j].status # "completed"
             \/ u = jobs[j].employer /\ jobs[j].employerRating # 0
             \/ /\ u = jobs[j].selectedWorker /\ u # jobs[j].employer
                /\ jobs[j].workerRating # 0 )
        => ( last'.code = 400 /\ UNCHANGED <<users, jobs>> )
    ]_vars

C13_Witness ==
  /\ last.op = "rate" /\ last.code = 400
  /\ jobs[last.job].status = "completed"
  /\ last.user = jobs[last.job].employer
  /\ jobs[last.job].employerRating # 0
  /\ jobs[last.job].employerRating # last.amt

\* C14: with the employer's ratings of the completed jobs of the worker w1
\* submitted in any order, w1's totalReviews is their number and w1's
\* averageRating is their mean rounded to the nearest tenth (a tie either way)
C14_AverageIsMean ==
  LET rated == { j \in JobIds : Live(j) /\ jobs[j].selectedWorker = "w1"
                                /\ jobs[j].employerRating # 0 }
      n == Cardinality(rated)
      sum == Cardinality({ p \in rated \X (1..5) : p[2] <= jobs[p[1]].employerRating })
      d == users["w1"].averageRating * n - 10 * sum
  IN /\ users["w1"].totalReviews = n
     /\ 2 * d <= n /\ 2 * (0 - d) <= n

\* C15: after the employer's PUT or DELETE of the rating they gave, the
\* worker's totalReviews is the number of the worker's jobs that hold an
\* employer's rating and averageRating is the mean of those ratings rounded to
\* the nearest tenth
C15_RecomputedFromEmployerRatings ==
  [][ \A j \in JobIds :
        ( /\ last'.op \in {"updateRating", "deleteRating"} /\ last'.job = j
          /\ Live(j) /\ jobs[j].selectedWorker # Null
          /\ last'.user = jobs[j].employer
          /\ jobs[j].employerRating # 0 )
        => LET w == jobs[j].selectedWorker
               rated == { k \in JobIds : /\ jobs'[k].exists = "live"
                                         /\ jobs'[k].selectedWorker = w
                                         /\ jobs'[k].employerRating # 0 }
               n == Cardinality(rated)
               sum == Cardinality({ p \in rated \X (1..5) :
                                      p[2] <= jobs'[p[1]].employerRating })
               d == users'[w].averageRating * n - 10 * sum
           IN /\ users'[w].totalReviews = n
              /\ 2 * d <= n /\ 2 * (0 - d) <= n
    ]_vars

\* C16: a withdrawal of more than wallet.balance is answered 400, one within
\* the balance that names a payment method the account does not hold is
\* answered 404, and neither creates a ledger entry nor changes an account
C16_WithdrawRefused ==
  [][ \A u \in Users :
        ( /\ last'.op = "withdraw" /\ last'.user = u
          /\ \/ last'.amt > users[u].balance
             \/ last'.arg \notin users[u].paymentMethods )
        => ( /\ last'.code = IF last'.amt > users[u].balance THEN 400 ELSE 404
             /\ UNCHANGED <<users, ledger, timers>> )
    ]_vars

C16_Witness ==
  /\ last.op = "withdraw" /\ last.code = 404
  /\ last.amt <= users[last.user].balance
  /\ last.arg \notin users[last.user].paymentMethods
  /\ \A t \in 1..Len(ledger) : ledger[t].type # "withdrawal"

\* C17: complete-job by an account that is not the employer is answered 403,
\* by the employer on a job that is not in_progress 400, and either leaves
\* the jobs, the ledger and the accounts as they were
C17_CompleteJobRefused ==
  [][ \A j \in JobIds :
        ( /\ last'.op = "completeJob" /\ last'.job = j /\ Live(j)
          /\ ( last'.user # jobs[j].employer \/ jobs[j].status # "in_progress" ) )
        => ( /\ last'.code = IF last'.user # jobs[j].employer THEN 403 ELSE 400
             /\ UNCHANGED <<users, jobs, ledger>> )
    ]_vars

C17_Witness ==
  /\ last.op = "completeJob" /\ last.code = 403
  /\ Live(last.job) /\ jobs[last.job].status = "in_progress"
  /\ last.user = jobs[last.job].selectedWorker

\* C18: a stored job status of completed or cancelled is never changed by a
\* later step
C18_TerminalStatusStays ==
  [][ \A j \in JobIds :
        ( /\ Live(j) /\ jobs[j].status \in {"completed", "cancelled"}
          /\ jobs'[j].exists = "live" )
        => jobs'[j].status = jobs[j].status
    ]_vars

\* C19: the save of an accept request that passed the status check lands
\* whatever the stored status has become, so that with two such requests for
\* two applications in flight both applications end accepted, and the request
\* is answered 200
C19_AcceptedTwice ==
  [][ \A r \in Reqs :
        ( /\ inflight[r] # Idle /\ inflight[r].op = "accept"
          /\ inflight'[r] # inflight[r]
          /\ Live(inflight[r].job)
          /\ jobs[inflight[r].job].version = inflight[r].version )
        => LET q == inflight[r]
               others == { k \in 1..Len(jobs[q.job].applications) :
                             /\ k # q.index
                             /\ jobs[q.job].applications[k].status = "accepted" }
           IN IF q.step = 1
              THEN /\ jobs'[q.job].applications[q.index].status = "accepted"
                   /\ jobs'[q.job].selectedWorker = q.worker
                   /\ \A k \in others : jobs'[q.job].applications[k].status = "accepted"
                   /\ inflight'[r] = [q EXCEPT !.step = 2]
              ELSE /\ last' = Response("putApplication", "accept", q.user, q.job, q.app,
                                       0, 0, 0, 200)
                   /\ inflight'[r] = Idle
    ]_vars

C19_Witness ==
  /\ last.op = "putApplication" /\ last.arg = "accept" /\ last.code = 200
  /\ Live(last.job)
  /\ Len(jobs[last.job].applications) = 2
  /\ jobs[last.job].applications[1].status = "accepted"
  /\ jobs[last.job].applications[2].status = "accepted"
  /\ jobs[last.job].applications[1].worker # jobs[last.job].applications[2].worker
  /\ \A r \in Reqs : inflight[r] = Idle

\* C20: a ledger entry is created pending when it is a withdrawal and
\* completed when it is an earning, and its status changes only from pending,
\* to completed or to failed
C20_EntryLifecycle ==
  [][ /\ Len(ledger') >= Len(ledger)
      /\ \A t \in 1..Len(ledger) :
           ledger'[t].status # ledger[t].status
           => ( /\ ledger[t].status = "pending"
                /\ ledger'[t].status \in {"completed", "failed"} )
      /\ \A t \in (Len(ledger) + 1)..Len(ledger') :
           /\ ledger'[t].type = "withdrawal" => ledger'[t].status = "pending"
           /\ ledger'[t].type = "earned" => ledger'[t].status = "completed"
    ]_vars

C20_Witness ==
  /\ last.op = "settle"
  /\ ledger[last.txn].status = "failed"
  /\ \E t \in 1..Len(ledger) :
        ledger[t].type = "withdrawal" /\ ledger[t].status = "completed"

\* C21: a second process() of a ledger entry that a first process() completed
\* leaves the owner's wallet.balance as the first call left it
C21_ProcessTwice ==
  [][ \A t \in 1..Len(ledger) :
        ( /\ last.op \in {"settle", "process"} /\ last.txn = t
          /\ ledger[t].status = "completed"
          /\ last'.op = "process" /\ last'.txn = t )
        => users'[ledger[t].user].balance = users[ledger[t].user].balance
    ]_vars

\* C22: fail(reason) sets the entry's status to failed and its failureReason
\* to the reason, and leaves the accounts and the other entries as they were
C22_FailFrame ==
  [][ \A t \in 1..Len(ledger) :
        ( /\ last'.txn = t
          /\ \/ last'.op = "fail"
             \/ last'.op = "settle" /\ ledger'[t].status # "completed" )
        => ( /\ ledger'[t] = [ledger[t] EXCEPT !.status = "failed",
                                !.failureReason = "Processing failed"]
             /\ Len(ledger') = Len(ledger)
             /\ \A k \in 1..Len(ledger) : k # t => ledger'[k] = ledger[k]
             /\ users' = users )
    ]_vars

C22_Witness ==
  /\ last.op = "fail"
  /\ ledger[last.txn].status = "failed"
  /\ ledger[last.txn].type = "earned"
  /\ ledger[last.txn].failureReason = "Processing failed"
  /\ users[last.user].balance = ledger[last.txn].amount

\* C23: a complete-job request answered 200 leaves the job's payment paid with
\* amount pay.amount and transactionId the earned entry it created, and the
\* selected worker's completedJobs one higher and totalEarnings pay.amount
\* higher
C23_CompleteJobBookkeeping ==
  [][ \A j \in JobIds :
        ( last'.op = "completeJob" /\ last'.job = j /\ last'.code = 200 )
        => LET w == jobs[j].selectedWorker
               t == Len(ledger')
           IN /\ jobs'[j].payment =
                   [status |-> "paid", amount |-> jobs[j].payAmount, transactionId |-> t]
              /\ t = Len(ledger) + 1
              /\ ledger'[t] = Entry(w, "earned", jobs[j].payAmount, j, "completed")
              /\ users'[w].completedJobs = users[w].completedJobs + 1
              /\ users'[w].totalEarnings = users[w].totalEarnings + jobs[j].payAmount
    ]_vars

C23_Witness ==
  /\ last.op = "completeJob" /\ last.code = 200
  /\ jobs[last.job].selectedWorker = "w2"
  /\ jobs[last.job].payment.status = "paid"
  /\ jobs[last.job].payment.transactionId = Len(ledger)
  /\ users["w2"].completedJobs = 1
  /\ users["w2"].totalEarnings = jobs[last.job].payAmount

\* C24: the answer of GET /api/applications/my holds one element for each job
\* its query finds, and the application in it is an application of that job
\* whose worker is the caller
C24_OnlyOwnApplications ==
  [][ last'.op = "myApplications"
      => /\ \A i \in 1..Len(last'.data) :
              LET item == last'.data[i]
              IN /\ item.application.worker = last'.user
                 /\ \E k \in 1..Len(jobs[item.job.id].applications) :
                       jobs[item.job.id].applications[k] = item.application
         /\ { last'.data[i].job.id : i \in 1..Len(last'.data) }
              = MyJobs(jobs, last'.user, last'.arg)
         /\ last'.arg = Absent
            => \A j \in JobIds :
                 ( Live(j) /\ FirstAppOf(jobs[j], last'.user) # 0 )
                 => \E i \in 1..Len(last'.data) : last'.data[i].job.id = j
    ]_vars

C24_Witness ==
  /\ last.op = "myApplications" /\ last.user = "w2"
  /\ Len(last.data) = 2
  /\ \A i \in 1..2 :
        /\ last.data[i].application.worker = "w2"
        /\ Len(jobs[last.data[i].job.id].applications) = 2
        /\ jobs[last.data[i].job.id].applications[1].worker = "w1"

\* C25: GET /api/applications/job/:jobId answers the job's employer with the
\* job's applications and every other caller with 403 and no application
C25_EmployerOnlyListing ==
  [][ \A j \in JobIds :
        ( last'.op = "jobApplications" /\ last'.job = j /\ Live(j) )
        => IF last'.user = jobs[j].employer
           THEN last'.code = 200 /\ last'.data = jobs[j].applications
           ELSE last'.code = 403 /\ last'.data = <<>>
    ]_vars

C25_Witness ==
  /\ last.op = "jobApplications" /\ last.code = 403
  /\ Live(last.job)
  /\ Len(jobs[last.job].applications) = 2
  /\ FirstAppOf(jobs[last.job], last.user) # 0
  /\ last.data = <<>>

\* C26: DELETE /api/users/account by an active account that is employer or
\* selected worker of a job in status active or in_progress is answered 400
\* and leaves the accounts as they were; otherwise it clears isActive and
\* prefixes the email of the caller's record, which stays in the store
C26_SoftDeleteWhenIdle ==
  [][ \A u \in Users :
        ( last'.op = "deleteAccount" /\ last'.user = u /\ users[u].isActive )
        => /\ DOMAIN users' = Users
           /\ jobs' = jobs
           /\ IF \E k \in JobIds :
                    /\ Live(k) /\ jobs[k].status \in {"active", "in_progress"}
                    /\ (jobs[k].employer = u \/ jobs[k].selectedWorker = u)
              THEN last'.code = 400 /\ users' = users
              ELSE /\ last'.code = 200
                   /\ users' = [users EXCEPT ![u].isActive = FALSE,
                                             ![u].email = <<"deleted", u>>]
    ]_vars

C26_Witness ==
  /\ last.op = "deleteAccount" /\ last.code = 400
  /\ users[last.user].isActive /\ users[last.user].email = <<last.user>>
  /\ jobs[1].status = "in_progress" /\ jobs[1].selectedWorker = last.user
  /\ \E v \in Users : ~users[v].isActive /\ users[v].email = <<"deleted", v>>

\* C27: POST /api/applications/:jobId appends an application only to a job
\* that is active and not expired and only for a caller who is not its
\* employer; otherwise it is answered 400 and leaves the job as it was
C27_ApplyNeedsActiveJob ==
  [][ \A j \in JobIds :
        ( last'.op = "apply" /\ last'.job = j /\ Live(j) )
        => LET allowed == /\ jobs[j].status = "active"
                          /\ ~jobs[j].expired
                          /\ jobs[j].employer # last'.user
           IN /\ jobs'[j].applications # jobs[j].applications => allowed
              /\ ~allowed => ( last'.code = 400 /\ jobs' = jobs )
    ]_vars

C27_Witness ==
  /\ last.op = "apply" /\ last.code = 400
  /\ Live(last.job) /\ jobs[last.job].status = "in_progress"
  /\ ~jobs[last.job].expired
  /\ last.user # jobs[last.job].employer
  /\ FirstAppOf(jobs[last.job], last.user) = 0

\* C28: a restart leaves no settlement timer, and a pending ledger entry
\* without a timer is left as it is, without a timer, by every step
C28_CrashLeavesPending ==
  [][ /\ last'.op = "crash" => timers' = {}
      /\ \A t \in 1..Len(ledger) :
           ( ledger[t].status = "pending" /\ t \notin timers )
           => ( ledger'[t] = ledger[t] /\ t \notin timers' )
    ]_vars

C28_Witness ==
  /\ last.op = "settle"
  /\ ledger[last.txn].type = "withdrawal" /\ ledger[last.txn].status = "completed"
  /\ \E t \in 1..Len(ledger) :
        /\ t < last.txn
        /\ ledger[t].type = "withdrawal" /\ ledger[t].status = "pending"
        /\ t \notin timers

\* C29: an accept answered 200 leaves every other application of the job as
\* it was
C29_AcceptLeavesOthers ==
  [][ \A j \in JobIds, a \in 1..MaxApps :
        ( /\ last'.op = "putApplication" /\ last'.arg = "accept"
          /\ last'.job = j /\ last'.app = a /\ last'.code = 200 )
        => /\ Len(jobs'[j].applications) = Len(jobs[j].applications)
           /\ \A k \in 1..Len(jobs[j].applications) :
                k # AppIndex(jobs[j], a)
                => jobs'[j].applications[k] = jobs[j].applications[k]
    ]_vars

C29_Witness ==
  /\ last.op = "putApplication" /\ last.arg = "accept" /\ last.code = 200
  /\ Len(jobs[last.job].applications) = 2
  /\ \E k \in 1..2 :
        /\ jobs[last.job].applications[k].id # last.app
        /\ jobs[last.job].applications[k].status = "pending"
  /\ jobs[last.job].applications[AppIndex(jobs[last.job], last.app)].status = "accepted"

\* C30: in the store init-db leaves, each account's wallet.balance is the sum
\* of the amounts of its completed ledger entries and every withdrawal entry
\* has a negative amount
C30_SeedLedgerInvariant ==
  last.op = "initDb"
  => /\ \A u \in Users : users[u].balance = getUserBalance(ledger, u)
     /\ \A t \in 1..Len(ledger) :
          ledger[t].type = "withdrawal" => ledger[t].amount < 0

\* C31: a job whose selectedWorker is set holds exactly one accepted
\* application, and that application is the selected worker's
C31_SelectedWorkerAccepted ==
  \A j \in JobIds :
    ( Live(j) /\ jobs[j].selectedWorker # Null )
    => LET accepted == { i \in 1..Len(jobs[j].applications) :
                           jobs[j].applications[i].status = "accepted" }
       IN /\ Cardinality(accepted) = 1
          /\ \A i \in accepted : jobs[j].applications[i].worker = jobs[j].selectedWorker

\* C32: the ledger holds at most one earned entry for a job, and once it holds
\* one no request for that job raises an account's completedJobs
C32_OneEarnedEntryPerJob ==
  [][ \A j \in JobIds :
        LET earned(l) == { t \in 1..Len(l) : l[t].type = "earned" /\ l[t].job = j }
        IN /\ Cardinality(earned(ledger')) <= 1
           /\ ( earned(ledger) # {} /\ last'.job = j )
              => \A u \in Users : users'[u].completedJobs = users[u].completedJobs
    ]_vars

\* C33: the sum of the amounts of an account's completed ledger entries is
\* never negative
C33_CompletedSumNotNegative ==
  \A u \in Users : getUserBalance(ledger, u) >= 0

\* C34: with the server running, every withdrawal entry leaves status pending
\* for completed or failed, and a settlement whose process() throws leaves the
\* entry failed with the reason 'Processing failed'
C34_WithdrawalSettles ==
  /\ \A t \in 1..MaxTxns :
       ( Len(ledger) >= t /\ ledger[t].type = "withdrawal" )
       ~> ( Len(ledger) >= t /\ ledger[t].status \in {"completed", "failed"} )
  /\ [][ \A t \in 1..Len(ledger) :
           ( /\ last'.op = "settle" /\ last'.txn = t
             /\ UserSaveThrows(users, ledger[t].user,
                               getUserBalance(ledger, ledger[t].user)) )
           => ( /\ ledger'[t].status = "failed"
                /\ ledger'[t].failureReason = "Processing failed" )
       ]_vars

\* C35: PUT /api/jobs/:id and DELETE /api/jobs/:id by an account that is not
\* the job's employer are answered 403, by the employer on a job that is not
\* active 400, and either leaves the job documents as they were
C35_JobChangeNeedsOwnerAndActive ==
  [][ \A j \in JobIds :
        ( /\ last'.op \in {"updateJob", "deleteJob"} /\ last'.job = j /\ Live(j)
          /\ ( last'.user # jobs[j].employer \/ jobs[j].status # "active" ) )
        => ( /\ last'.code = IF last'.user # jobs[j].employer THEN 403 ELSE 400
             /\ jobs' = jobs )
    ]_vars

C35_Witness ==
  /\ last.op = "deleteJob" /\ last.code = 400
  /\ Live(last.job) /\ last.user = jobs[last.job].employer
  /\ jobs[last.job].status = "in_progress"
  /\ Len(jobs[last.job].applications) = 2

\* C36: a POST of an application that follows the worker's withdrawal (PUT
\* with action withdraw, or DELETE) from a job that is active and not expired
\* is answered 201
C36_ReapplyAfterWithdrawal ==
  [][ \A j \in JobIds, u \in Users :
        ( /\ last.code = 200 /\ last.user = u /\ last.job = j
          /\ \/ last.op = "putApplication" /\ last.arg = "withdraw"
             \/ last.op = "deleteApplication"
          /\ last'.op = "apply" /\ last'.user = u /\ last'.job = j
          /\ Live(j) /\ jobs[j].status = "active" /\ ~jobs[j].expired )
        => last'.code = 201
    ]_vars

\* C37 as stated: every request of a deactivated account is answered 401 and
\* changes nothing
C37_EveryRequestRejected ==
  [][ \A u \in Users :
        ( ~users[u].isActive /\ last'.user = u )
        => ( last'.code = 401 /\ UNCHANGED <<users, jobs, ledger, timers>> )
    ]_vars

\* C37: every request of a deactivated account to a route behind the auth
\* middleware is answered 401 and changes nothing; GET /api/jobs/:id, behind
\* optionalAuth, is answered as for a caller without an account
C37_AuthRoutesRejected ==
  [][ \A u \in Users :
        ( ~users[u].isActive /\ last'.user = u )
        => IF last'.op = "view"
           THEN last'.code = IF Live(last'.job) THEN 200 ELSE 404
           ELSE last'.code = 401 /\ UNCHANGED <<users, jobs, ledger, timers>>
    ]_vars

C37_Witness ==
  /\ last.op = "auth" /\ last.code = 401
  /\ ~users[last.user].isActive /\ users[last.user].email = <<"deleted", last.user>>
  /\ Live(1) /\ jobs[1].status = "active"
  /\ FirstAppOf(jobs[1], last.user) # 0

\* C38: a request with valid input that adds a payment method to an account
\* without payment methods is answered 200 and stores the method with
\* isDefault true
C38_FirstMethodIsDefault ==
  [][ \A u \in Users :
        ( /\ last'.op = "addPaymentMethod" /\ last'.user = u
          /\ last'.code # 400
          /\ users[u].paymentMethods = {} )
        => ( /\ last'.code = 200
             /\ last'.arg \in users'[u].paymentMethods
             /\ last'.arg \in users'[u].defaultMethods )
    ]_vars

\* C39: an account with at least one open connection has an entry in
\* connectedUsers whose socketId is one of its open connections, so
\* emitToUser delivers to it
C39_LiveAccountIsRegistered ==
  \A u \in Users :
    SocketsOf(u) # {}
    => ( /\ connectedUsers[u] \in SocketsOf(u)
         /\ emitToUser(u) # {} )

====
